---- MODULE Spec2Model ----
(***************************************************************************)
(* Lazy element / collection handles of selene/elements.py: locators that  *)
(* are resolved on every access, the single-retry policy of                *)
(* SeleneElement._execute, the index gate of IndexedWebElementLocator, the *)
(* iteration of SeleneCollection and the lru_cache of                      *)
(* CachingWebElementLocator.                                               *)
(*                                                                         *)
(* The page is a live list of items; the browser changes it between any    *)
(* two steps of the calling thread.  A driver handle is the id of an item: *)
(* it is stale as soon as that item has left the page.                     *)
(***************************************************************************)
EXTENDS Integers, Sequences, FiniteSets, TLC

\* ------------------------------------------------------------------ bounds
MaxSize == 2          \* longest page list
MaxItems == 2         \* distinct item identities the browser can render
config_timeout == 2   \* config.timeout, in poll intervals
MaxHandles == 3       \* handles built by navigation in the laziness model
MaxDriverCalls == 16  \* find_element / find_elements calls counted
MaxCaching == 130     \* caching locator instances created
MaxPasses == 2        \* iteration passes / size() calls recorded
MaxIndex == 1         \* largest index asked of collection[index]
MaxTimeout == 3       \* largest timeout argument, in poll intervals
MaxStep == 2          \* largest step of collection[start:stop:step]
MaxCounted == 2       \* resolutions of a collection counted within one call
MaxChain == 3         \* most actions stored in one ActionChains

\* ------------------------------------------------------ program constants
lru_maxsize == 128    \* functools.lru_cache() default maxsize

Items == 1..MaxItems
NoHandle == 0
None == 0 - 1                \* Python None as a timeout argument
BodyHandle == MaxItems + 1   \* the document body: always present, never re-rendered

VARIABLES
    dom,            \* the page: sequence of [id, vis, done]
    pc,             \* position of the calling thread
    cmd,            \* operation being called
    target,         \* locator kind of the handle the call is made on
    attempt,        \* 1 or 2: which command() of _execute is running
    stage,          \* index of the driver operation inside command()
    handle,         \* driver handle returned by the last __delegate__
    resolvedAt,     \* attempt in which `handle` was resolved
    finds,          \* locator.find() calls made by the current attempt
    waits,          \* should(condition) calls made by _execute in this call
    clock,          \* time since the call began, in poll intervals
    deadline,       \* end_time of the wait in progress
    err1,           \* exception raised by the first command()
    err2,           \* exception raised by the second command()
    result,         \* what the caller gets: "none", "ok", an exception name
    clearedHandle,  \* handle that received clear() in the current attempt
    typedHandle,    \* handle that received send_keys() in the current attempt
    idx,            \* index of the IndexedWebElementLocator being resolved
    got,            \* driver handle or count returned to the caller
    sizes,          \* values returned by successive size() calls
    iter_i,         \* i of __iter__
    current_len,    \* current_len of __iter__
    yielded,        \* handles yielded by the pass in progress
    passes,         \* number of handles yielded by each finished pass
    handles,        \* handles built by navigation (laziness model)
    driverCalls,    \* find_element / find_elements calls issued so far
    lru,            \* lru_cache of CachingWebElementLocator.find: <<[loc, val]>>, oldest first
    nCaching,       \* CachingWebElementLocator instances created
    writes1,        \* times the cache entry of locator 1 was written
    first1,         \* first value found by caching locator 1
    last1,          \* latest value found by caching locator 1
    preds,          \* predicates of the filtered_by / element_by chain being resolved
    found,          \* web elements a collection resolution returned
    slc,            \* slice of the SlicedListWebElementLocator being resolved
    timeoutArg,     \* timeout argument of should / should_each (None: omitted)
    gateDeadline,   \* end_time of the wait_for of a locator's gate
    ctx,            \* what runs the locator's find: "attempt" (command) or "poll" (a condition)
    childFinds,     \* find_element / find_elements calls made inside a parent element
    chain,          \* actions stored in self._actions_chains: the element of each, oldest first
    performed       \* actions the last perform() submitted to the driver, in order

pageVars == <<dom>>
execVars == <<cmd, target, attempt, stage, handle, resolvedAt, finds, waits,
              err1, err2, clearedHandle, typedHandle>>
timeVars == <<clock, deadline>>
collVars == <<idx, got, sizes, iter_i, current_len, yielded, passes>>
lazyVars == <<handles, driverCalls>>
cacheVars == <<lru, nCaching, writes1, first1, last1>>
moreVars == <<preds, found, slc, timeoutArg, gateDeadline, ctx, childFinds>>
chainVars == <<chain, performed>>
vars == <<dom, pc, result, execVars, timeVars, collVars, lazyVars, cacheVars, moreVars,
          chainVars>>

\* ------------------------------------------------------------------- page
Ids(d) == {d[k].id : k \in 1..Len(d)}
ItemAt(d, h) == d[CHOOSE k \in 1..Len(d) : d[k].id = h]
RemoveAt(d, k) == SubSeq(d, 1, k - 1) \o SubSeq(d, k + 1, Len(d))

\* the browser renders a new item at the end of the list
PageAdd ==
    /\ Len(dom) < MaxSize
    /\ \E x \in Items \ Ids(dom), v \in BOOLEAN, m \in BOOLEAN :
          dom' = Append(dom, [id |-> x, vis |-> v, done |-> m])

\* the browser removes an item: handles to it become stale
PageRemove ==
    \E k \in 1..Len(dom) : dom' = RemoveAt(dom, k)

\* the browser shows or hides an item
PageToggleVisible ==
    \E k \in 1..Len(dom) : dom' = [dom EXCEPT ![k].vis = ~@]

\* the browser changes the text of an item (the predicate of element_by)
PageToggleDone ==
    \E k \in 1..Len(dom) : dom' = [dom EXCEPT ![k].done = ~@]

PageChange == PageAdd \/ PageRemove \/ PageToggleVisible \/ PageToggleDone

\* ---------------------------------------------------------------- driver
Ok(h) == [err |-> "none", val |-> h]
Raised(e) == [err |-> e, val |-> NoHandle]

\* selenium exceptions deriving from WebDriverException
WebDriverException ==
    {"StaleElementReferenceException", "ElementNotVisibleException",
     "NoSuchElementException", "InvalidSelectorException"}

\* the transient class of the specification: stale / not interactable / not found
Transient ==
    {"StaleElementReferenceException", "ElementNotVisibleException",
     "NoSuchElementException"}

\* search_context.find_element(*by)
find_element(d, valid) ==
    IF ~valid THEN Raised("InvalidSelectorException")
    ELSE IF Len(d) = 0 THEN Raised("NoSuchElementException")
    ELSE Ok(d[1].id)

\* search_context.find_elements(*by)
find_elements(d) == [k \in 1..Len(d) |-> d[k].id]

\* a condition is a conjunction of atomic predicates on a web element
Atoms == {"visible", "hidden", "done"}

AtomHolds(a, item) ==
    CASE a = "visible" -> item.vis
      [] a = "hidden"  -> ~item.vis
      [] a = "done"    -> item.done

\* condition.matches_webelement(webelement) of condition p
matches(p, d, h) == h \in Ids(d) /\ \A a \in p : AtomHolds(a, ItemAt(d, h))

\* condition.matches_webelement(webelement) for the predicate of element_by
matches_webelement(d, h) == matches({"done"}, d, h)

\* the loop of FoundByConditionWebElementLocator.find returning the last match
FoundByFind_Last(p, webelements, d) ==
    LET hits == {k \in 1..Len(webelements) : matches(p, d, webelements[k])}
    IN  IF hits = {} THEN Raised("NoSuchElementException")
        ELSE Ok(webelements[CHOOSE k \in hits : \A j \in hits : k >= j])

\* FoundByConditionWebElementLocator.find over webelements = self._collection()
FoundByFind(p, webelements, d) ==
    LET hits == {k \in 1..Len(webelements) : matches(p, d, webelements[k])}
    IN  IF hits = {} THEN Raised("NoSuchElementException")
        ELSE Ok(webelements[CHOOSE k \in hits : \A j \in hits : k <= j])

\* FoundByConditionWebElementLocator.find
FoundByConditionFind(d) == FoundByFind({"done"}, find_elements(d), d)

Reverse(q) == [k \in 1..Len(q) |-> q[Len(q) + 1 - k]]

\* the comprehension of FilteredListWebElementLocator.find collecting in reverse
FilteredFind_Reversed(p, webelements, d) ==
    Reverse(SelectSeq(webelements, LAMBDA h : matches(p, d, h)))

\* FilteredListWebElementLocator.find over webelements = self._collection()
FilteredFind(p, webelements, d) ==
    SelectSeq(webelements, LAMBDA h : matches(p, d, h))

Targets == {"by", "by_invalid", "found_by"}

\* self._locator.find() of the locators that resolve without a gate
LocatorFind(t, d) ==
    CASE t = "by"         -> find_element(d, TRUE)
      [] t = "by_invalid" -> find_element(d, FALSE)
      [] t = "found_by"   -> FoundByConditionFind(d)

NeedsVisible == {"click", "clear", "send_keys"}

\* a driver primitive applied to handle h on page d: the exception it raises
DriverOp(op, h, d) ==
    IF h \notin Ids(d) THEN "StaleElementReferenceException"
    ELSE IF op \in NeedsVisible /\ ~ItemAt(d, h).vis THEN "ElementNotVisibleException"
    ELSE "none"

\* --------------------------------------------------------- SeleneElement
\* the driver primitives command() applies, each to a fresh self.__delegate__
Steps(c) ==
    CASE c = "click"         -> <<"click">>
      [] c = "set"           -> <<"clear", "send_keys">>
      [] c = "get_attribute" -> <<"get_attribute">>
      [] c = "call"          -> <<>>

\* the condition= argument each operation hands to _execute
ConditionOf(c) ==
    CASE c = "click"         -> "visible"
      [] c = "set"           -> "visible"
      [] c = "get_attribute" -> "in_dom"
      [] c = "call"          -> "none"
      [] c = "hover"         -> "visible"
      [] c = "double_click"  -> "visible"

Commands == {"click", "set", "get_attribute", "call"}
UsesExecute(c) == c \in {"click", "set", "get_attribute", "hover", "double_click"}

\* a call starts: `element.click()`, `element.set(..)`, `element.get_attribute(..)`
\* enter _execute and run command(); `element()` is __call__
Call(c, t) ==
    /\ pc \in {"idle", "done"}
    /\ cmd' = c
    /\ target' = t
    /\ attempt' = 1
    /\ stage' = 1
    /\ handle' = NoHandle
    /\ resolvedAt' = 0
    /\ finds' = 0
    /\ waits' = 0
    /\ clock' = 0
    /\ deadline' = 0
    /\ err1' = "none"
    /\ err2' = "none"
    /\ result' = "none"
    /\ clearedHandle' = NoHandle
    /\ typedHandle' = NoHandle
    /\ pc' = "resolve"
    /\ UNCHANGED <<pageVars, collVars, lazyVars, cacheVars>>
    /\ UNCHANGED moreVars
    /\ UNCHANGED chainVars

\* an exception leaves the call: it reaches the caller as it is
Propagate(e) ==
    /\ IF attempt = 1 THEN err1' = e /\ UNCHANGED err2
                      ELSE err2' = e /\ UNCHANGED err1
    /\ result' = e
    /\ pc' = "done"

\* Raise with an except clause that is entered on every command(), first or not
Raise_CatchEveryAttempt(e) ==
    IF UsesExecute(cmd) /\ e \in WebDriverException
    THEN /\ err1' = e
         /\ pc' = "except"
         /\ UNCHANGED <<result, err2>>
    ELSE Propagate(e)

\* Raise with an except clause that lets NoSuchElementException through
Raise_NotFoundUncaught(e) ==
    IF UsesExecute(cmd) /\ attempt = 1
       /\ e \in WebDriverException \ {"NoSuchElementException"}
    THEN /\ err1' = e
         /\ pc' = "except"
         /\ UNCHANGED <<result, err2>>
    ELSE Propagate(e)

\* Raise with an except clause that also takes the TimeoutError of a wait
Raise_CatchTimeout(e) ==
    IF UsesExecute(cmd) /\ attempt = 1
       /\ e \in WebDriverException \cup {"TimeoutError"}
    THEN /\ err1' = e
         /\ pc' = "except"
         /\ UNCHANGED <<result, err2>>
    ELSE Propagate(e)

\* command() raised e: the try of _execute surrounds the first command() only
\* and its except clause takes every WebDriverException
Raise(e) ==
    IF UsesExecute(cmd) /\ attempt = 1 /\ e \in WebDriverException
    THEN /\ err1' = e
         /\ pc' = "except"
         /\ UNCHANGED <<result, err2>>
    ELSE Propagate(e)

\* self.__delegate__: self._locator.find()
Delegate ==
    /\ pc = "resolve"
    /\ finds' = finds + 1
    /\ LET r == LocatorFind(target, dom)
       IN  IF r.err # "none"
           THEN /\ Raise(r.err)
                /\ UNCHANGED <<handle, resolvedAt, waits, clock, deadline>>
           ELSE /\ handle' = r.val
                /\ resolvedAt' = attempt
                /\ IF Steps(cmd) = <<>>
                   THEN /\ result' = "ok"
                        /\ pc' = "done"
                   ELSE /\ pc' = "op"
                        /\ UNCHANGED result
                /\ UNCHANGED <<waits, clock, deadline, err1, err2>>
    /\ UNCHANGED <<cmd, target, attempt, stage, clearedHandle, typedHandle>>
    /\ UNCHANGED <<pageVars, collVars, lazyVars, cacheVars>>
    /\ UNCHANGED moreVars
    /\ UNCHANGED chainVars

\* the driver primitive of the current stage, applied to the handle just resolved
CommandOp ==
    /\ pc = "op"
    /\ LET op == Steps(cmd)[stage]
           e == DriverOp(op, handle, dom)
       IN  IF e # "none"
           THEN /\ Raise(e)
                /\ UNCHANGED <<stage, clearedHandle, typedHandle, waits, clock, deadline>>
           ELSE /\ clearedHandle' = IF op = "clear" THEN handle ELSE clearedHandle
                /\ typedHandle' = IF op = "send_keys" THEN handle ELSE typedHandle
                /\ IF stage < Len(Steps(cmd))
                   THEN /\ stage' = stage + 1
                        /\ pc' = "resolve"
                        /\ UNCHANGED result
                   ELSE /\ result' = "ok"
                        /\ pc' = "done"
                        /\ UNCHANGED stage
                /\ UNCHANGED <<waits, clock, deadline, err1, err2>>
    /\ UNCHANGED <<cmd, target, attempt, handle, resolvedAt, finds>>
    /\ UNCHANGED <<pageVars, collVars, lazyVars, cacheVars>>
    /\ UNCHANGED moreVars
    /\ UNCHANGED chainVars

\* Except without the self.should(condition): the retry follows at once
Except_NoWait ==
    /\ pc = "except"
    /\ attempt' = attempt + 1
    /\ stage' = 1
    /\ finds' = 0
    /\ clearedHandle' = NoHandle
    /\ typedHandle' = NoHandle
    /\ pc' = "resolve"
    /\ UNCHANGED <<result, clock, deadline, waits, cmd, target, handle, resolvedAt,
                   err1, err2>>
    /\ UNCHANGED <<pageVars, collVars, lazyVars, cacheVars>>
    /\ UNCHANGED moreVars
    /\ UNCHANGED chainVars

\* the except clause of _execute: self.should(condition) starts wait_for with
\* config.timeout
Except ==
    /\ pc = "except"
    /\ waits' = waits + 1
    /\ deadline' = clock + config_timeout
    /\ pc' = "wait"
    /\ UNCHANGED <<result, clock, cmd, target, attempt, stage, handle, resolvedAt,
                   finds, err1, err2, clearedHandle, typedHandle>>
    /\ UNCHANGED <<pageVars, collVars, lazyVars, cacheVars>>
    /\ UNCHANGED moreVars
    /\ UNCHANGED chainVars

\* be.visible / be.in_dom evaluated on the element: it resolves the element and
\* asks the driver; an exception of the resolution is caught by the poll
Matches(cond, t, d) ==
    LET r == LocatorFind(t, d)
    IN  /\ r.err = "none"
        /\ cond = "visible" => ItemAt(d, r.val).vis

\* `return command()` after should(condition) returned: the second command()
Retry ==
    /\ attempt' = attempt + 1
    /\ stage' = 1
    /\ finds' = 0
    /\ clearedHandle' = NoHandle
    /\ typedHandle' = NoHandle
    /\ pc' = "resolve"
    /\ UNCHANGED <<handle, resolvedAt>>

\* an except clause that swallows the failure of self.should(condition) and
\* goes on to `return command()`
ShouldRaised_Swallowed(e) ==
    /\ Retry
    /\ UNCHANGED result

\* self.should(condition) raised e inside the except clause of _execute: nothing
\* there catches it, `return command()` is not reached
ShouldRaised(e) ==
    /\ result' = e
    /\ pc' = "done"
    /\ UNCHANGED <<attempt, stage, finds, clearedHandle, typedHandle,
                   handle, resolvedAt>>

\* one poll of wait_for inside self.should(condition) of _execute
WaitPoll ==
    /\ pc = "wait"
    /\ IF Matches(ConditionOf(cmd), target, dom)
       THEN /\ Retry
            /\ UNCHANGED <<result, clock>>
       ELSE IF clock < deadline
            THEN /\ clock' = clock + 1
                 /\ UNCHANGED <<pc, result>>
                 /\ UNCHANGED <<attempt, stage, finds, clearedHandle, typedHandle,
                                handle, resolvedAt>>
            ELSE /\ ShouldRaised("TimeoutError")
                 /\ UNCHANGED clock
    /\ UNCHANGED <<cmd, target, waits, deadline, err1, err2>>
    /\ UNCHANGED <<pageVars, collVars, lazyVars, cacheVars>>
    /\ UNCHANGED moreVars
    /\ UNCHANGED chainVars

\* the browser changes the page while the calling thread is anywhere
Browser ==
    /\ PageChange
    /\ UNCHANGED <<pc, result, execVars, timeVars, collVars, lazyVars, cacheVars>>
    /\ UNCHANGED moreVars
    /\ UNCHANGED chainVars

Visible(x) == [id |-> x, vis |-> TRUE, done |-> FALSE]

InitIdle ==
    /\ pc = "idle"
    /\ result = "none"
    /\ cmd = "call"
    /\ target = "by"
    /\ attempt = 1
    /\ stage = 1
    /\ handle = NoHandle
    /\ resolvedAt = 0
    /\ finds = 0
    /\ waits = 0
    /\ clock = 0
    /\ deadline = 0
    /\ err1 = "none"
    /\ err2 = "none"
    /\ clearedHandle = NoHandle
    /\ typedHandle = NoHandle
    /\ idx = 0
    /\ got = NoHandle
    /\ sizes = <<>>
    /\ iter_i = 0
    /\ current_len = 0
    /\ yielded = <<>>
    /\ passes = <<>>
    /\ handles = <<>>
    /\ driverCalls = 0
    /\ lru = <<>>
    /\ nCaching = 1
    /\ writes1 = 0
    /\ first1 = NoHandle
    /\ last1 = NoHandle
    /\ preds = <<>>
    /\ found = <<>>
    /\ slc = <<0, 0, 1>>
    /\ timeoutArg = None
    /\ gateDeadline = 0
    /\ ctx = "attempt"
    /\ childFinds = 0
    /\ chain = <<>>
    /\ performed = <<>>

Init ==
    /\ dom = <<Visible(1)>>
    /\ InitIdle

Next ==
    \/ \E c \in Commands, t \in Targets : Call(c, t)
    \/ Delegate
    \/ CommandOp
    \/ Except
    \/ WaitPoll
    \/ Browser

Spec == Init /\ [][Next]_vars

\* the interactions that pass a condition to _execute, on handles whose locator
\* the driver accepts
NextReadiness ==
    \/ \E c \in {"click", "get_attribute"}, t \in {"by", "found_by"} : Call(c, t)
    \/ Delegate
    \/ CommandOp
    \/ Except
    \/ WaitPoll
    \/ Browser

SpecReadiness == Init /\ [][NextReadiness]_vars

\* ------------------------------------------------------ SeleneCollection
\* FilteredListWebElementLocator.find: the source elements that match, in order
FilteredListFind(d) == FilteredFind({"done"}, find_elements(d), d)

Collections == {"all", "filtered_by"}

\* SeleneCollection.__delegate__: self._locator.find()
CollectionDelegate(t, d) ==
    CASE t = "all"         -> find_elements(d)
      [] t = "filtered_by" -> FilteredListFind(d)

\* the last MaxPasses observations
Record(h, v) == IF Len(h) < MaxPasses THEN Append(h, v) ELSE Append(Tail(h), v)

\* the caller enters collection.size()
SizeCall(t) ==
    /\ pc \in {"idle", "done"}
    /\ cmd' = "size"
    /\ target' = t
    /\ result' = "none"
    /\ pc' = "size"
    /\ UNCHANGED <<attempt, stage, handle, resolvedAt, finds, waits, err1, err2,
                   clearedHandle, typedHandle>>
    /\ UNCHANGED <<pageVars, timeVars, collVars, lazyVars, cacheVars>>
    /\ UNCHANGED moreVars
    /\ UNCHANGED chainVars

\* size() with a count kept from the previous call
SizeReturn_Memo ==
    /\ pc = "size"
    /\ got' = IF sizes # <<>> THEN sizes[Len(sizes)]
              ELSE Len(CollectionDelegate(target, dom))
    /\ sizes' = Record(sizes, got')
    /\ result' = "ok"
    /\ pc' = "done"
    /\ UNCHANGED <<idx, iter_i, current_len, yielded, passes>>
    /\ UNCHANGED <<pageVars, execVars, timeVars, lazyVars, cacheVars>>
    /\ UNCHANGED moreVars
    /\ UNCHANGED chainVars

\* size(): return len(self), __len__: len(self.__delegate__)
SizeReturn ==
    /\ pc = "size"
    /\ got' = Len(CollectionDelegate(target, dom))
    /\ sizes' = Record(sizes, got')
    /\ result' = "ok"
    /\ pc' = "done"
    /\ UNCHANGED <<idx, iter_i, current_len, yielded, passes>>
    /\ UNCHANGED <<pageVars, execVars, timeVars, lazyVars, cacheVars>>
    /\ UNCHANGED moreVars
    /\ UNCHANGED chainVars

InitSize ==
    /\ dom = <<Visible(1), Visible(2)>>
    /\ InitIdle

NextSize ==
    \/ \E t \in Collections : SizeCall(t)
    \/ SizeReturn
    \/ Browser

SpecSize == InitSize /\ [][NextSize]_vars

\* __getitem__ with an int: SeleneElement(IndexedWebElementLocator(index, collection=self))
GetItem(i, t) ==
    [locator |-> "IndexedWebElementLocator", index |-> i, collection |-> t]

\* __iter__ resumed from where the previous pass stopped
IterBegin_KeepIndex(t) ==
    /\ pc \in {"idle", "done"}
    /\ cmd' = "iter"
    /\ target' = t
    /\ result' = "none"
    /\ current_len' = Len(CollectionDelegate(t, dom))
    /\ yielded' = <<>>
    /\ pc' = "iter"
    /\ UNCHANGED <<iter_i, idx, got, sizes, passes>>
    /\ UNCHANGED <<attempt, stage, handle, resolvedAt, finds, waits, err1, err2,
                   clearedHandle, typedHandle>>
    /\ UNCHANGED <<pageVars, timeVars, lazyVars, cacheVars>>
    /\ UNCHANGED moreVars
    /\ UNCHANGED chainVars

\* __iter__: i = 0; current_len = len(self)
IterBegin(t) ==
    /\ pc \in {"idle", "done"}
    /\ cmd' = "iter"
    /\ target' = t
    /\ result' = "none"
    /\ iter_i' = 0
    /\ current_len' = Len(CollectionDelegate(t, dom))
    /\ yielded' = <<>>
    /\ pc' = "iter"
    /\ UNCHANGED <<idx, got, sizes, passes>>
    /\ UNCHANGED <<attempt, stage, handle, resolvedAt, finds, waits, err1, err2,
                   clearedHandle, typedHandle>>
    /\ UNCHANGED <<pageVars, timeVars, lazyVars, cacheVars>>
    /\ UNCHANGED moreVars
    /\ UNCHANGED chainVars

\* a loop that reads len(self) again at every step
IterYield_RereadLen ==
    /\ pc = "iter"
    /\ iter_i < current_len
    /\ yielded' = Append(yielded, GetItem(iter_i, target))
    /\ iter_i' = iter_i + 1
    /\ current_len' = Len(CollectionDelegate(target, dom))
    /\ UNCHANGED <<pc, result, idx, got, sizes, passes>>
    /\ UNCHANGED <<pageVars, execVars, timeVars, lazyVars, cacheVars>>
    /\ UNCHANGED moreVars
    /\ UNCHANGED chainVars

\* while i < current_len: v = self[i]; yield v; i += 1
IterYield ==
    /\ pc = "iter"
    /\ iter_i < current_len
    /\ yielded' = Append(yielded, GetItem(iter_i, target))
    /\ iter_i' = iter_i + 1
    /\ UNCHANGED <<pc, result, idx, got, sizes, current_len, passes>>
    /\ UNCHANGED <<pageVars, execVars, timeVars, lazyVars, cacheVars>>
    /\ UNCHANGED moreVars
    /\ UNCHANGED chainVars

\* the while condition fails: the generator returns
IterStop ==
    /\ pc = "iter"
    /\ ~(iter_i < current_len)
    /\ passes' = Record(passes, Len(yielded))
    /\ result' = "ok"
    /\ pc' = "done"
    /\ UNCHANGED <<idx, got, sizes, iter_i, current_len, yielded>>
    /\ UNCHANGED <<pageVars, execVars, timeVars, lazyVars, cacheVars>>
    /\ UNCHANGED moreVars
    /\ UNCHANGED chainVars

NextIterate ==
    \/ \E t \in Collections : IterBegin(t)
    \/ IterYield
    \/ IterStop
    \/ Browser

SpecIterate == InitSize /\ [][NextIterate]_vars

\* collection[i]() : IndexedWebElementLocator.find begins with
\* self._collection.should(have.size_at_least(self._index + 1))
GetCall(i, t) ==
    /\ pc \in {"idle", "done"}
    /\ cmd' = "get"
    /\ target' = t
    /\ idx' = i
    /\ got' = NoHandle
    /\ result' = "none"
    /\ clock' = 0
    /\ deadline' = config_timeout
    /\ pc' = "gate"
    /\ UNCHANGED <<sizes, iter_i, current_len, yielded, passes>>
    /\ UNCHANGED <<attempt, stage, handle, resolvedAt, finds, waits, err1, err2,
                   clearedHandle, typedHandle>>
    /\ UNCHANGED <<pageVars, lazyVars, cacheVars>>
    /\ UNCHANGED moreVars
    /\ UNCHANGED chainVars

\* one poll of wait_for on have.size_at_least(index + 1)
GatePoll ==
    /\ pc = "gate"
    /\ IF Len(CollectionDelegate(target, dom)) >= idx + 1
       THEN /\ pc' = "fetch"
            /\ UNCHANGED <<result, clock>>
       ELSE IF clock < deadline
            THEN /\ clock' = clock + 1
                 /\ UNCHANGED <<pc, result>>
            ELSE /\ result' = "TimeoutError"
                 /\ pc' = "done"
                 /\ UNCHANGED clock
    /\ UNCHANGED <<deadline, execVars, pageVars, collVars, lazyVars, cacheVars>>
    /\ UNCHANGED moreVars
    /\ UNCHANGED chainVars

\* return delegate()[self._index]: the collection is resolved again
Fetch ==
    /\ pc = "fetch"
    /\ LET webelements == CollectionDelegate(target, dom)
       IN  IF idx + 1 <= Len(webelements)
           THEN /\ got' = webelements[idx + 1]
                /\ result' = "ok"
           ELSE /\ got' = NoHandle
                /\ result' = "IndexError"
    /\ pc' = "done"
    /\ UNCHANGED <<idx, sizes, iter_i, current_len, yielded, passes>>
    /\ UNCHANGED <<pageVars, execVars, timeVars, lazyVars, cacheVars>>
    /\ UNCHANGED moreVars
    /\ UNCHANGED chainVars

NextIndex ==
    \/ \E i \in 0..MaxIndex, t \in Collections : GetCall(i, t)
    \/ GatePoll
    \/ Fetch
    \/ Browser

SpecIndex == InitSize /\ [][NextIndex]_vars

\* ------------------------------------------------------------ navigation
\* a handle: its class, the class of its locator, the handle the locator was
\* built on (0: the webdriver) and the index of an IndexedWebElementLocator
NewHandle(k, l, p, i) == [kind |-> k, locator |-> l, parent |-> p, index |-> i]

ElementHandles == {h \in 1..Len(handles) : handles[h].kind = "SeleneElement"}
CollectionHandles == {h \in 1..Len(handles) : handles[h].kind = "SeleneCollection"}

\* a navigation call returns a new handle and leaves everything else alone
Built(h) ==
    /\ Len(handles) < MaxHandles
    /\ handles' = Append(handles, h)
    /\ UNCHANGED <<pc, result, driverCalls>>
    /\ UNCHANGED <<pageVars, execVars, timeVars, collVars, cacheVars>>
    /\ UNCHANGED moreVars
    /\ UNCHANGED chainVars

\* SeleneElement.by / by_css / by_css_or_by
By == Built(NewHandle("SeleneElement", "SearchContextWebElementLocator", 0, 0))

\* SeleneCollection.by / by_css / by_css_or_by
CollectionBy == Built(NewHandle("SeleneCollection", "SearchContextListWebElementLocator", 0, 0))

\* element() that looks its element up when it is called
Element_Eager(p) ==
    /\ p \in ElementHandles
    /\ Len(handles) < MaxHandles
    /\ driverCalls < MaxDriverCalls
    /\ handles' = Append(handles, NewHandle("SeleneElement", "InnerWebElementLocator", p, 0))
    /\ driverCalls' = driverCalls + 1
    /\ UNCHANGED <<pc, result>>
    /\ UNCHANGED <<pageVars, execVars, timeVars, collVars, cacheVars>>
    /\ UNCHANGED moreVars
    /\ UNCHANGED chainVars

\* SeleneElement.element
Element(p) ==
    /\ p \in ElementHandles
    /\ Built(NewHandle("SeleneElement", "InnerWebElementLocator", p, 0))

\* SeleneElement.all
All(p) ==
    /\ p \in ElementHandles
    /\ Built(NewHandle("SeleneCollection", "InnerListWebElementLocator", p, 0))

\* SeleneElement.caching
Caching(p) ==
    /\ p \in ElementHandles
    /\ Built(NewHandle("SeleneElement", "CachingWebElementLocator", p, 0))

\* SeleneCollection.filtered_by
FilteredBy(p) ==
    /\ p \in CollectionHandles
    /\ Built(NewHandle("SeleneCollection", "FilteredListWebElementLocator", p, 0))

\* SeleneCollection.element_by
ElementBy(p) ==
    /\ p \in CollectionHandles
    /\ Built(NewHandle("SeleneElement", "FoundByConditionWebElementLocator", p, 0))

\* SeleneCollection.__getitem__ with an int
GetItemIndex(p, i) ==
    /\ p \in CollectionHandles
    /\ Built(NewHandle("SeleneElement", "IndexedWebElementLocator", p, i))

\* SeleneCollection.__getitem__ with a slice
GetItemSlice(p) ==
    /\ p \in CollectionHandles
    /\ Built(NewHandle("SeleneCollection", "SlicedListWebElementLocator", p, 0))

\* SeleneCollection.first: self[0]
First(p) == GetItemIndex(p, 0)

\* find_element / find_elements calls of one resolution of handle h in which
\* every gate passes at its first poll: a gate resolves its subject once, and
\* the find that follows resolves it again
RECURSIVE FindCalls(_)
FindCalls(h) ==
    LET l == handles[h].locator
        p == handles[h].parent
    IN  CASE l \in {"SearchContextWebElementLocator", "SearchContextListWebElementLocator"} -> 1
          [] l \in {"InnerWebElementLocator", "InnerListWebElementLocator"} -> 2 * FindCalls(p) + 1
          [] l \in {"IndexedWebElementLocator", "SlicedListWebElementLocator"} -> 2 * FindCalls(p)
          [] l \in {"CachingWebElementLocator", "FilteredListWebElementLocator",
                    "FoundByConditionWebElementLocator"} -> FindCalls(p)

\* an interaction, assertion, size() or iteration on handle h: self.__delegate__
Use(h) ==
    /\ h \in 1..Len(handles)
    /\ driverCalls + FindCalls(h) <= MaxDriverCalls
    /\ driverCalls' = driverCalls + FindCalls(h)
    /\ result' = "ok"
    /\ pc' = "done"
    /\ UNCHANGED handles
    /\ UNCHANGED <<pageVars, execVars, timeVars, collVars, cacheVars>>
    /\ UNCHANGED moreVars
    /\ UNCHANGED chainVars

NextLazy ==
    \/ By
    \/ CollectionBy
    \/ \E p \in 1..MaxHandles : Element(p)
    \/ \E p \in 1..MaxHandles : All(p)
    \/ \E p \in 1..MaxHandles : Caching(p)
    \/ \E p \in 1..MaxHandles : FilteredBy(p)
    \/ \E p \in 1..MaxHandles : ElementBy(p)
    \/ \E p \in 1..MaxHandles, i \in 1..MaxIndex : GetItemIndex(p, i)
    \/ \E p \in 1..MaxHandles : GetItemSlice(p)
    \/ \E p \in 1..MaxHandles : First(p)
    \/ \E h \in 1..MaxHandles : Use(h)

SpecLazy == Init /\ [][NextLazy]_vars

\* ---------------------------------------------- CachingWebElementLocator
\* lru_cache keeps the lru_maxsize most recently used entries
Evict(c) == IF Len(c) > lru_maxsize THEN Tail(c) ELSE c

CacheIndex(c, loc) == CHOOSE k \in 1..Len(c) : c[k].loc = loc
Cached(c, loc) == \E k \in 1..Len(c) : c[k].loc = loc

\* caching locator 1 wraps the element found by selector; element() on its handle
\* runs the lru_cache wrapper of find with the key (self,)
CachingFind ==
    /\ pc \in {"idle", "done"}
    /\ IF Cached(lru, 1)
       THEN LET k == CacheIndex(lru, 1)
            IN  /\ got' = lru[k].val
                /\ last1' = lru[k].val
                /\ lru' = Append(RemoveAt(lru, k), lru[k])
                /\ result' = "ok"
                /\ UNCHANGED <<writes1, first1, driverCalls>>
       ELSE LET r == find_element(dom, TRUE)
            IN  /\ driverCalls' = IF driverCalls < MaxDriverCalls
                                  THEN driverCalls + 1 ELSE driverCalls
                /\ IF r.err # "none"
                   THEN /\ result' = r.err
                        /\ UNCHANGED <<got, last1, lru, writes1, first1>>
                   ELSE /\ got' = r.val
                        /\ last1' = r.val
                        /\ lru' = Evict(Append(lru, [loc |-> 1, val |-> r.val]))
                        /\ writes1' = writes1 + 1
                        /\ first1' = IF first1 = NoHandle THEN r.val ELSE first1
                        /\ result' = "ok"
    /\ pc' = "done"
    /\ UNCHANGED <<nCaching, handles, idx, sizes, iter_i, current_len, yielded, passes>>
    /\ UNCHANGED <<pageVars, execVars, timeVars>>
    /\ UNCHANGED moreVars
    /\ UNCHANGED chainVars

\* body.cached(): caching() builds one more CachingWebElementLocator and
\* should(be.in_dom) resolves it, which stores its entry
CachedOther ==
    /\ pc \in {"idle", "done"}
    /\ nCaching < MaxCaching
    /\ nCaching' = nCaching + 1
    /\ lru' = Evict(Append(lru, [loc |-> nCaching', val |-> BodyHandle]))
    /\ result' = "ok"
    /\ pc' = "done"
    /\ UNCHANGED <<writes1, first1, last1, lazyVars, collVars>>
    /\ UNCHANGED <<pageVars, execVars, timeVars>>
    /\ UNCHANGED moreVars
    /\ UNCHANGED chainVars

\* the browser renders the element anew: the same place, another identity
PageRerender ==
    /\ \E k \in 1..Len(dom), x \in Items \ Ids(dom) : dom' = [dom EXCEPT ![k].id = x]
    /\ UNCHANGED <<pc, result, execVars, timeVars, collVars, lazyVars, cacheVars>>
    /\ UNCHANGED moreVars
    /\ UNCHANGED chainVars

\* element 1 was built and resolved by cached(): its entry is in the cache
InitCaching ==
    /\ dom = <<Visible(1)>>
    /\ pc = "idle"
    /\ result = "none"
    /\ cmd = "call"
    /\ target = "by"
    /\ attempt = 1
    /\ stage = 1
    /\ handle = NoHandle
    /\ resolvedAt = 0
    /\ finds = 0
    /\ waits = 0
    /\ clock = 0
    /\ deadline = 0
    /\ err1 = "none"
    /\ err2 = "none"
    /\ clearedHandle = NoHandle
    /\ typedHandle = NoHandle
    /\ idx = 0
    /\ got = 1
    /\ sizes = <<>>
    /\ iter_i = 0
    /\ current_len = 0
    /\ yielded = <<>>
    /\ passes = <<>>
    /\ handles = <<>>
    /\ driverCalls = 1
    /\ lru = <<[loc |-> 1, val |-> 1]>>
    /\ nCaching = 1
    /\ writes1 = 1
    /\ first1 = 1
    /\ last1 = 1
    /\ preds = <<>>
    /\ found = <<>>
    /\ slc = <<0, 0, 1>>
    /\ timeoutArg = None
    /\ gateDeadline = 0
    /\ ctx = "attempt"
    /\ childFinds = 0
    /\ chain = <<>>
    /\ performed = <<>>

NextCaching ==
    \/ CachingFind
    \/ CachedOther
    \/ PageRerender

SpecCaching == InitCaching /\ [][NextCaching]_vars

\* ------------------------------------------------- filtered_by / element_by
Predicates == {{a} : a \in Atoms}

\* collection.filtered_by(p1).filtered_by(p2)(): the outer locator's find calls
\* the inner one's for its self._collection()
FilterResolve(p1, p2) ==
    /\ pc \in {"idle", "done"}
    /\ cmd' = "filtered_by"
    /\ preds' = <<p1, p2>>
    /\ found' = FilteredFind(p2, FilteredFind(p1, find_elements(dom), dom), dom)
    /\ finds' = 1
    /\ result' = "ok"
    /\ pc' = "done"
    /\ UNCHANGED <<target, attempt, stage, handle, resolvedAt, waits, err1, err2,
                   clearedHandle, typedHandle, lazyVars>>
    /\ UNCHANGED <<slc, timeoutArg, gateDeadline, ctx, childFinds>>
    /\ UNCHANGED chainVars
    /\ UNCHANGED <<pageVars, timeVars, collVars, cacheVars>>

\* collection.element_by(p)(): find iterates over one self._collection()
ElementByResolve(p) ==
    /\ pc \in {"idle", "done"}
    /\ cmd' = "element_by"
    /\ preds' = <<p>>
    /\ LET r == FoundByFind(p, find_elements(dom), dom)
       IN  /\ result' = IF r.err = "none" THEN "ok" ELSE r.err
           /\ got' = r.val
    /\ found' = <<>>
    /\ finds' = 1
    /\ pc' = "done"
    /\ UNCHANGED <<target, attempt, stage, handle, resolvedAt, waits, err1, err2,
                   clearedHandle, typedHandle, lazyVars>>
    /\ UNCHANGED <<idx, sizes, iter_i, current_len, yielded, passes>>
    /\ UNCHANGED <<slc, timeoutArg, gateDeadline, ctx, childFinds>>
    /\ UNCHANGED chainVars
    /\ UNCHANGED <<pageVars, timeVars, cacheVars>>

NextFilter ==
    \/ \E p1 \in Predicates, p2 \in Predicates : FilterResolve(p1, p2)
    \/ Browser

SpecFilter == InitSize /\ [][NextFilter]_vars

NextElementBy ==
    \/ \E p \in Predicates : ElementByResolve(p)
    \/ Browser

SpecElementBy == InitSize /\ [][NextElementBy]_vars

\* ------------------------------------------------------- should / should_not
Subjects == {"by", "found_by"} \cup Collections
Timeouts == {None} \cup 0..MaxTimeout

\* `if not timeout: timeout = config.timeout`: None and 0 are both falsy
Budget(t) == IF t = None \/ t = 0 THEN config_timeout ELSE t

\* condition.matches(subject) is true: be.visible on an element handle,
\* have.size_at_least(1) on a collection handle; resolving the subject is part of
\* the evaluation and an exception it raises makes the poll fail
Satisfied(t, d) ==
    IF t \in Collections THEN Len(CollectionDelegate(t, d)) >= 1
    ELSE Matches("visible", t, d)

\* condition.matches(subject) evaluated without an exception and false
Refuted(t, d) ==
    IF t \in Collections THEN Len(CollectionDelegate(t, d)) < 1
    ELSE LocatorFind(t, d).err = "none" /\ ~Matches("visible", t, d)

\* what a poll of wait_for / wait_for_not looks for
PollSucceeds(c, t, d) == IF c = "should_not" THEN Refuted(t, d) ELSE Satisfied(t, d)

\* should / should_not that return self without calling wait_for
ShouldCall_NoWait(c, t, tm) ==
    /\ pc \in {"idle", "done"}
    /\ cmd' = c
    /\ target' = t
    /\ timeoutArg' = tm
    /\ finds' = 0
    /\ clock' = 0
    /\ deadline' = Budget(tm)
    /\ result' = "ok"
    /\ pc' = "done"
    /\ UNCHANGED <<attempt, stage, handle, resolvedAt, waits, err1, err2,
                   clearedHandle, typedHandle>>
    /\ UNCHANGED <<pageVars, collVars, lazyVars, cacheVars>>
    /\ UNCHANGED <<preds, found, slc, gateDeadline, ctx, childFinds>>
    /\ UNCHANGED chainVars

\* subject.should(condition, timeout) / subject.should_not(condition, timeout):
\* the timeout is settled and wait_for / wait_for_not begins
ShouldCall(c, t, tm) ==
    /\ pc \in {"idle", "done"}
    /\ cmd' = c
    /\ target' = t
    /\ timeoutArg' = tm
    /\ finds' = 0
    /\ clock' = 0
    /\ deadline' = Budget(tm)
    /\ result' = "none"
    /\ pc' = "should"
    /\ UNCHANGED <<attempt, stage, handle, resolvedAt, waits, err1, err2,
                   clearedHandle, typedHandle>>
    /\ UNCHANGED <<pageVars, collVars, lazyVars, cacheVars>>
    /\ UNCHANGED <<preds, found, slc, gateDeadline, ctx, childFinds>>
    /\ UNCHANGED chainVars

\* one poll of wait_for / wait_for_not: the subject is resolved and the condition
\* evaluated; on success should returns self
ShouldPoll ==
    /\ pc = "should"
    /\ finds' = finds + 1
    /\ IF PollSucceeds(cmd, target, dom)
       THEN /\ result' = "ok"
            /\ pc' = "done"
            /\ UNCHANGED clock
       ELSE IF clock < deadline
            THEN /\ clock' = clock + 1
                 /\ UNCHANGED <<pc, result>>
            ELSE /\ result' = "TimeoutError"
                 /\ pc' = "done"
                 /\ UNCHANGED clock
    /\ UNCHANGED <<cmd, target, deadline, attempt, stage, handle, resolvedAt, waits,
                   err1, err2, clearedHandle, typedHandle>>
    /\ UNCHANGED <<pageVars, collVars, lazyVars, cacheVars>>
    /\ UNCHANGED moreVars
    /\ UNCHANGED chainVars

NextShould ==
    \/ \E c \in {"should", "should_not"}, t \in Subjects, tm \in Timeouts :
          ShouldCall(c, t, tm)
    \/ ShouldPoll
    \/ Browser

SpecShould == InitSize /\ [][NextShould]_vars

\* --------------------------------- InnerWebElementLocator / InnerList...
\* every item carries one inner element matching the child selector; the handle
\* of that inner element is named by the id of its item
InnerCommands == {"inner_element", "inner_all"}

\* find() that goes to self._element.find_element(*self._by) without the should
InnerCall_NoGate(c, t) ==
    /\ pc \in {"idle", "done"}
    /\ cmd' = c
    /\ target' = t
    /\ waits' = 0
    /\ handle' = NoHandle
    /\ got' = NoHandle
    /\ found' = <<>>
    /\ childFinds' = 0
    /\ clock' = 0
    /\ deadline' = config_timeout
    /\ result' = "none"
    /\ pc' = "parent_resolve"
    /\ UNCHANGED <<attempt, stage, resolvedAt, finds, err1, err2,
                   clearedHandle, typedHandle>>
    /\ UNCHANGED <<idx, sizes, iter_i, current_len, yielded, passes>>
    /\ UNCHANGED <<pageVars, lazyVars, cacheVars>>
    /\ UNCHANGED <<preds, slc, timeoutArg, gateDeadline, ctx>>
    /\ UNCHANGED chainVars

\* parent.element(sel)() / parent.all(sel)(): InnerWebElementLocator.find and
\* InnerListWebElementLocator.find begin with self._element.should(be.visible)
InnerCall(c, t) ==
    /\ pc \in {"idle", "done"}
    /\ cmd' = c
    /\ target' = t
    /\ waits' = 0
    /\ handle' = NoHandle
    /\ got' = NoHandle
    /\ found' = <<>>
    /\ childFinds' = 0
    /\ clock' = 0
    /\ deadline' = config_timeout
    /\ result' = "none"
    /\ pc' = "parent_gate"
    /\ UNCHANGED <<attempt, stage, resolvedAt, finds, err1, err2,
                   clearedHandle, typedHandle>>
    /\ UNCHANGED <<idx, sizes, iter_i, current_len, yielded, passes>>
    /\ UNCHANGED <<pageVars, lazyVars, cacheVars>>
    /\ UNCHANGED <<preds, slc, timeoutArg, gateDeadline, ctx>>
    /\ UNCHANGED chainVars

\* one poll of wait_for on be.visible of the parent
ParentGatePoll ==
    /\ pc = "parent_gate"
    /\ IF Matches("visible", target, dom)
       THEN /\ waits' = waits + 1
            /\ pc' = "parent_resolve"
            /\ UNCHANGED <<result, clock>>
       ELSE IF clock < deadline
            THEN /\ clock' = clock + 1
                 /\ UNCHANGED <<pc, result, waits>>
            ELSE /\ result' = "TimeoutError"
                 /\ pc' = "done"
                 /\ UNCHANGED <<clock, waits>>
    /\ UNCHANGED <<cmd, target, deadline, attempt, stage, handle, resolvedAt, finds,
                   err1, err2, clearedHandle, typedHandle>>
    /\ UNCHANGED <<pageVars, collVars, lazyVars, cacheVars>>
    /\ UNCHANGED moreVars
    /\ UNCHANGED chainVars

\* SeleneElement.find_element / find_elements of the parent that should
\* returned: self.__delegate__ resolves the parent again
ParentResolve ==
    /\ pc = "parent_resolve"
    /\ LET r == LocatorFind(target, dom)
       IN  IF r.err # "none"
           THEN /\ result' = r.err
                /\ pc' = "done"
                /\ UNCHANGED handle
           ELSE /\ handle' = r.val
                /\ pc' = "child_find"
                /\ UNCHANGED result
    /\ UNCHANGED <<cmd, target, clock, deadline, attempt, stage, resolvedAt, finds,
                   waits, err1, err2, clearedHandle, typedHandle>>
    /\ UNCHANGED <<pageVars, collVars, lazyVars, cacheVars>>
    /\ UNCHANGED moreVars
    /\ UNCHANGED chainVars

\* the driver's find_element(*by) / find_elements(*by) inside the parent handle
ChildFind ==
    /\ pc = "child_find"
    /\ childFinds' = childFinds + 1
    /\ IF handle \notin Ids(dom)
       THEN /\ result' = "StaleElementReferenceException"
            /\ UNCHANGED <<got, found>>
       ELSE /\ result' = "ok"
            /\ IF cmd = "inner_all"
               THEN found' = <<handle>> /\ UNCHANGED got
               ELSE got' = handle /\ UNCHANGED found
    /\ pc' = "done"
    /\ UNCHANGED <<idx, sizes, iter_i, current_len, yielded, passes>>
    /\ UNCHANGED <<pageVars, execVars, timeVars, lazyVars, cacheVars>>
    /\ UNCHANGED <<preds, slc, timeoutArg, gateDeadline, ctx>>
    /\ UNCHANGED chainVars

NextInner ==
    \/ \E c \in InnerCommands, t \in {"by", "found_by"} : InnerCall(c, t)
    \/ ParentGatePoll
    \/ ParentResolve
    \/ ChildFind
    \/ Browser

SpecInner == InitSize /\ [][NextInner]_vars

\* ------------------------------------------- SlicedListWebElementLocator
\* number of the positions a, a + step, ... below stop
SliceLen(a, stop, step) == IF stop > a THEN (stop - a + step - 1) \div step ELSE 0

\* webelements[start:stop:step] of Python for 0 <= start, 0 <= stop, 1 <= step:
\* a stop beyond the end of the list is cut to the end, without an error
PySlice(q, a, b, step) ==
    LET stop == IF b < Len(q) THEN b ELSE Len(q)
    IN  [k \in 1..SliceLen(a, stop, step) |-> q[a + (k - 1) * step + 1]]

\* collection[a:b:step](): SlicedListWebElementLocator.find begins with
\* self._collection.should(have.size_at_least(self._slice.stop))
SliceCall(a, b, step, t) ==
    /\ pc \in {"idle", "done"}
    /\ cmd' = "slice"
    /\ target' = t
    /\ slc' = <<a, b, step>>
    /\ found' = <<>>
    /\ result' = "none"
    /\ clock' = 0
    /\ deadline' = config_timeout
    /\ pc' = "slice_gate"
    /\ UNCHANGED <<attempt, stage, handle, resolvedAt, finds, waits, err1, err2,
                   clearedHandle, typedHandle>>
    /\ UNCHANGED <<pageVars, collVars, lazyVars, cacheVars>>
    /\ UNCHANGED <<preds, timeoutArg, gateDeadline, ctx, childFinds>>
    /\ UNCHANGED chainVars

\* one poll of wait_for on have.size_at_least(slice.stop)
SliceGatePoll ==
    /\ pc = "slice_gate"
    /\ IF Len(CollectionDelegate(target, dom)) >= slc[2]
       THEN /\ pc' = "slice_fetch"
            /\ UNCHANGED <<result, clock>>
       ELSE IF clock < deadline
            THEN /\ clock' = clock + 1
                 /\ UNCHANGED <<pc, result>>
            ELSE /\ result' = "TimeoutError"
                 /\ pc' = "done"
                 /\ UNCHANGED clock
    /\ UNCHANGED <<deadline, execVars, pageVars, collVars, lazyVars, cacheVars>>
    /\ UNCHANGED moreVars
    /\ UNCHANGED chainVars

\* webelements = self._collection(); return webelements[start:stop:step]: the
\* collection is resolved again
SliceFetch ==
    /\ pc = "slice_fetch"
    /\ found' = PySlice(CollectionDelegate(target, dom), slc[1], slc[2], slc[3])
    /\ result' = "ok"
    /\ pc' = "done"
    /\ UNCHANGED <<pageVars, execVars, timeVars, collVars, lazyVars, cacheVars>>
    /\ UNCHANGED <<preds, slc, timeoutArg, gateDeadline, ctx, childFinds>>
    /\ UNCHANGED chainVars

NextSlice ==
    \/ \E a \in 0..MaxIndex, b \in 0..MaxSize, step \in 1..MaxStep, t \in Collections :
          SliceCall(a, b, step, t)
    \/ SliceGatePoll
    \/ SliceFetch
    \/ Browser

SpecSlice == InitSize /\ [][NextSlice]_vars

\* ----------------------------- gated locators under _execute and under waits
\* handles whose locator waits before it finds: collection[i] (target: the
\* collection) and parent.element(sel) (target "inner", the parent being found
\* by selector)
Gated == {"all", "inner"}

\* the resolutions of the collection are counted while should_each runs
Count(n) == IF cmd = "should_each" /\ n < MaxCounted THEN n + 1 ELSE n

\* the index of the IndexedWebElementLocator at work: should_each walks self[i]
MemberIndex == IF cmd = "should_each" THEN iter_i ELSE idx

\* the condition of the locator's own should: have.size_at_least(index + 1) on
\* the collection, be.visible on the parent
GateHolds(t, d) ==
    IF t = "inner" THEN Matches("visible", "by", d)
    ELSE Len(CollectionDelegate(t, d)) >= MemberIndex + 1

\* what follows the gate: delegate()[self._index], or the parent resolved again
\* and the child found in it
GatedFetch(t, d) ==
    IF t = "inner" THEN LocatorFind("by", d)
    ELSE LET webelements == CollectionDelegate(t, d)
         IN  IF MemberIndex + 1 <= Len(webelements)
             THEN Ok(webelements[MemberIndex + 1])
             ELSE Raised("IndexError")

\* should_each with one deadline for the whole loop
BeginMember_SharedBudget(now, tm) ==
    /\ deadline' = Budget(tm)
    /\ pc' = "wait"

\* selement.should(condition, timeout): wait_for begins with its own end time
BeginMember(now, tm) ==
    /\ deadline' = now + Budget(tm)
    /\ pc' = "wait"

\* collection.should_each(condition, timeout): timeout settled, then
\* `for selement in self`, whose __iter__ reads len(self) once
EachCall(t, tm) ==
    /\ pc \in {"idle", "done"}
    /\ cmd' = "should_each"
    /\ target' = t
    /\ timeoutArg' = tm
    /\ iter_i' = 0
    /\ current_len' = Len(CollectionDelegate(t, dom))
    /\ driverCalls' = 1
    /\ clock' = 0
    /\ ctx' = "poll"
    /\ gateDeadline' = 0
    /\ IF current_len' = 0
       THEN /\ result' = "ok"
            /\ pc' = "done"
            /\ deadline' = 0
       ELSE /\ result' = "none"
            /\ BeginMember(0, tm)
    /\ UNCHANGED <<attempt, stage, handle, resolvedAt, finds, waits, err1, err2,
                   clearedHandle, typedHandle>>
    /\ UNCHANGED <<idx, got, sizes, yielded, passes>>
    /\ UNCHANGED <<pageVars, handles, cacheVars>>
    /\ UNCHANGED <<preds, found, slc, childFinds>>
    /\ UNCHANGED chainVars

\* element.click() on a gated handle: _execute runs command(), whose
\* self.__delegate__ is the locator's find
GatedCall(i, t) ==
    /\ pc \in {"idle", "done"}
    /\ cmd' = "click"
    /\ target' = t
    /\ idx' = i
    /\ attempt' = 1
    /\ stage' = 1
    /\ handle' = NoHandle
    /\ waits' = 0
    /\ err1' = "none"
    /\ err2' = "none"
    /\ result' = "none"
    /\ clock' = 0
    /\ deadline' = 0
    /\ ctx' = "attempt"
    /\ gateDeadline' = config_timeout
    /\ driverCalls' = 0
    /\ pc' = "locator_gate"
    /\ UNCHANGED <<resolvedAt, finds, clearedHandle, typedHandle>>
    /\ UNCHANGED <<got, sizes, iter_i, current_len, yielded, passes>>
    /\ UNCHANGED <<pageVars, handles, cacheVars>>
    /\ UNCHANGED <<preds, found, slc, timeoutArg, childFinds>>
    /\ UNCHANGED chainVars

\* wait_for makes its next poll: the condition is evaluated on the handle, which
\* runs the locator's find, gate first
WaitBegin ==
    /\ pc = "wait"
    /\ ctx' = "poll"
    /\ gateDeadline' = clock + config_timeout
    /\ pc' = "locator_gate"
    /\ UNCHANGED <<result, execVars, timeVars, collVars, lazyVars, cacheVars, pageVars>>
    /\ UNCHANGED <<preds, found, slc, timeoutArg, childFinds>>
    /\ UNCHANGED chainVars

\* a poll of wait_for ended without the condition being true (false, or an
\* exception, the gate's TimeoutError included)
PollFailed ==
    /\ IF clock < deadline
       THEN /\ clock' = clock + 1
            /\ pc' = "wait"
            /\ UNCHANGED result
       ELSE /\ result' = "TimeoutError"
            /\ pc' = "done"
            /\ UNCHANGED clock
    /\ UNCHANGED <<deadline, gateDeadline, ctx, attempt, err1, err2, iter_i>>

\* `return command()` of _execute on a gated handle
GatedRetry ==
    /\ attempt' = attempt + 1
    /\ ctx' = "attempt"
    /\ gateDeadline' = clock + config_timeout
    /\ pc' = "locator_gate"

\* a poll of wait_for found the condition true: should returns; should_each goes
\* on to the next member or returns, _execute goes on to `return command()`
PollSucceeded ==
    IF cmd = "should_each"
    THEN /\ iter_i' = iter_i + 1
         /\ IF iter_i + 1 < current_len
            THEN /\ BeginMember(clock, timeoutArg)
                 /\ UNCHANGED result
            ELSE /\ result' = "ok"
                 /\ pc' = "done"
                 /\ UNCHANGED deadline
         /\ UNCHANGED <<clock, gateDeadline, ctx, attempt, err1, err2>>
    ELSE /\ GatedRetry
         /\ UNCHANGED <<result, clock, deadline, err1, err2, iter_i>>

\* one poll of the wait_for of the locator's own should
LocatorGatePoll ==
    /\ pc = "locator_gate"
    /\ driverCalls' = Count(driverCalls)
    /\ IF GateHolds(target, dom)
       THEN /\ pc' = "locator_fetch"
            /\ UNCHANGED <<result, clock, deadline, gateDeadline, ctx, attempt, err1,
                           err2, iter_i>>
       ELSE IF clock < gateDeadline
            THEN /\ clock' = clock + 1
                 /\ UNCHANGED <<pc, result, deadline, gateDeadline, ctx, attempt, err1,
                                err2, iter_i>>
            ELSE IF ctx = "attempt"
                 THEN /\ Raise("TimeoutError")
                      /\ UNCHANGED <<clock, deadline, gateDeadline, ctx, attempt, iter_i>>
                 ELSE PollFailed
    /\ UNCHANGED <<cmd, target, stage, handle, resolvedAt, finds, waits,
                   clearedHandle, typedHandle>>
    /\ UNCHANGED <<idx, got, sizes, current_len, yielded, passes>>
    /\ UNCHANGED <<pageVars, handles, cacheVars>>
    /\ UNCHANGED <<preds, found, slc, timeoutArg, childFinds>>
    /\ UNCHANGED chainVars

\* the find after the gate; inside a poll the condition (be.visible) is then
\* asked of the element found
LocatorFetch ==
    /\ pc = "locator_fetch"
    /\ driverCalls' = Count(driverCalls)
    /\ LET r == GatedFetch(target, dom)
       IN  IF ctx = "attempt"
           THEN IF r.err # "none"
                THEN /\ Raise(r.err)
                     /\ UNCHANGED <<clock, deadline, gateDeadline, ctx, attempt, iter_i,
                                    handle>>
                ELSE /\ handle' = r.val
                     /\ pc' = "op"
                     /\ UNCHANGED <<result, clock, deadline, gateDeadline, ctx, attempt,
                                    err1, err2, iter_i>>
           ELSE IF r.err = "none" /\ ItemAt(dom, r.val).vis
                THEN /\ PollSucceeded
                     /\ handle' = r.val
                ELSE /\ PollFailed
                     /\ UNCHANGED handle
    /\ UNCHANGED <<cmd, target, stage, resolvedAt, finds, waits,
                   clearedHandle, typedHandle>>
    /\ UNCHANGED <<idx, got, sizes, current_len, yielded, passes>>
    /\ UNCHANGED <<pageVars, handles, cacheVars>>
    /\ UNCHANGED <<preds, found, slc, timeoutArg, childFinds>>
    /\ UNCHANGED chainVars

\* the browser adds, removes, shows and hides items; the text of the items,
\* which none of the locators below reads, stays as rendered
BrowserLayout ==
    /\ \/ PageRemove
       \/ PageToggleVisible
       \/ /\ Len(dom) < MaxSize
          /\ \E x \in Items \ Ids(dom), v \in BOOLEAN :
                dom' = Append(dom, [id |-> x, vis |-> v, done |-> FALSE])
    /\ UNCHANGED <<pc, result, execVars, timeVars, collVars, lazyVars, cacheVars>>
    /\ UNCHANGED moreVars
    /\ UNCHANGED chainVars

EachTimeouts == {None, 1}

NextEach ==
    \/ \E tm \in EachTimeouts : EachCall("all", tm)
    \/ WaitBegin
    \/ LocatorGatePoll
    \/ LocatorFetch
    \/ BrowserLayout

SpecEach == InitSize /\ [][NextEach]_vars

NextGated ==
    \/ \E i \in 0..MaxIndex : GatedCall(i, "all")
    \/ GatedCall(0, "inner")
    \/ LocatorGatePoll
    \/ LocatorFetch
    \/ CommandOp
    \/ Except
    \/ WaitBegin
    \/ BrowserLayout

SpecGated == InitSize /\ [][NextGated]_vars

\* ------------------------------------------- hover / double_click
\* self._actions_chains is the one ActionChains built in __init__; its
\* move_to_element / double_click store an action and return the chain, its
\* perform() submits every stored action in order and keeps them stored
PointerCommands == {"hover", "double_click"}

\* a pointer action of the driver on handle h: the exception it raises
PointerOp(h, d) ==
    IF h \notin Ids(d) THEN "StaleElementReferenceException"
    ELSE IF ~ItemAt(d, h).vis THEN "ElementNotVisibleException"
    ELSE "none"

\* the exception of the first stored action that fails, "none" if none does
PerformError(q, d) ==
    LET failing == {k \in 1..Len(q) : PointerOp(q[k], d) # "none"}
    IN  IF failing = {} THEN "none"
        ELSE PointerOp(q[CHOOSE k \in failing : \A j \in failing : k <= j], d)

\* s(selector): SeleneElement.__init__ builds a new, empty ActionChains
HandleNew ==
    /\ pc \in {"idle", "done"}
    /\ chain' = <<>>
    /\ performed' = <<>>
    /\ result' = "none"
    /\ pc' = "idle"
    /\ UNCHANGED <<pageVars, execVars, timeVars, collVars, lazyVars, cacheVars>>
    /\ UNCHANGED moreVars

\* element.hover() / element.double_click() enter _execute and run command()
PointerCall(c) ==
    /\ Len(chain) + 2 <= MaxChain
    /\ Call(c, "by")

\* command(): self.__delegate__ is resolved and move_to_element(..) /
\* double_click(..) stores the action on it in self._actions_chains
ChainDelegate ==
    /\ pc = "resolve"
    /\ finds' = finds + 1
    /\ LET r == LocatorFind(target, dom)
       IN  IF r.err # "none"
           THEN /\ Raise(r.err)
                /\ UNCHANGED <<handle, resolvedAt, chain>>
           ELSE /\ handle' = r.val
                /\ resolvedAt' = attempt
                /\ chain' = Append(chain, r.val)
                /\ pc' = "perform"
                /\ UNCHANGED <<result, err1, err2>>
    /\ UNCHANGED <<cmd, target, attempt, stage, waits, clearedHandle, typedHandle>>
    /\ UNCHANGED <<pageVars, timeVars, collVars, lazyVars, cacheVars, performed>>
    /\ UNCHANGED moreVars

\* command(): .perform() submits the stored actions
ChainPerform ==
    /\ pc = "perform"
    /\ performed' = chain
    /\ LET e == PerformError(chain, dom)
       IN  IF e # "none"
           THEN Raise(e)
           ELSE /\ result' = "ok"
                /\ pc' = "done"
                /\ UNCHANGED <<err1, err2>>
    /\ UNCHANGED <<cmd, target, attempt, stage, handle, resolvedAt, finds, waits,
                   clearedHandle, typedHandle>>
    /\ UNCHANGED <<pageVars, timeVars, collVars, lazyVars, cacheVars, chain>>
    /\ UNCHANGED moreVars

NextChain ==
    \/ HandleNew
    \/ \E c \in PointerCommands : PointerCall(c)
    \/ ChainDelegate
    \/ ChainPerform
    \/ Except
    \/ WaitPoll
    \/ BrowserLayout

SpecChain == Init /\ [][NextChain]_vars

\* ------------------------------------------------------------------ claims
\* C1: an interaction whose first command() raises a transient driver error and
\* whose second command() raises nothing reports success to the caller, and
\* exactly one should(condition) ran between the two attempts.
C1_SingleRetrySuccess ==
    (pc = "done" /\ UsesExecute(cmd) /\ err1 \in Transient
        /\ attempt >= 2 /\ err2 = "none")
    => (result = "ok" /\ waits = 1 /\ attempt = 2)

C1_Witness ==
    /\ pc = "done"
    /\ cmd = "click"
    /\ err1 = "StaleElementReferenceException"
    /\ attempt = 2
    /\ result = "ok"
    /\ waits = 1

\* C2: the command is attempted at most twice in a call, the handle every
\* driver primitive is applied to was resolved by a locator.find() of the same
\* attempt, and an exception of the second attempt reaches the caller as it
\* is, after exactly one wait and with no further attempt.
C2_AtMostOneRetry ==
    /\ attempt <= 2
    /\ waits <= 1
    /\ pc = "op" => (resolvedAt = attempt /\ finds >= 1)
    /\ err2 # "none" => (pc = "done" /\ result = err2 /\ waits = 1 /\ attempt = 2)

C2_Witness ==
    /\ pc = "done"
    /\ cmd = "click"
    /\ attempt = 2
    /\ err1 = "ElementNotVisibleException"
    /\ err2 = "StaleElementReferenceException"
    /\ result = "StaleElementReferenceException"
    /\ waits = 1

\* C3 (as claimed): a driver error outside the transient class raised by the
\* first attempt reaches the caller at once: no wait is started, no second
\* attempt is made.
C3_NonTransientPropagates ==
    (UsesExecute(cmd) /\ err1 \notin Transient \cup {"none"})
    => (pc = "done" /\ result = err1 /\ waits = 0 /\ attempt = 1)

\* C4 (as claimed): a NotFound raised outside a should wait reaches the caller
\* at once and is not retried.
C4_NotFoundImmediate ==
    err1 = "NoSuchElementException"
    => (pc = "done" /\ result = err1 /\ waits = 0 /\ attempt = 1)

\* C4 (amended): a NotFound of a direct resolution, element(), reaches the
\* caller at once; a NotFound of the first attempt of an interaction is caught
\* and followed by one readiness wait, so that only the second attempt can
\* hand it to the caller; a NotFound inside the wait never ends the call
\* before the deadline.
C4_NotFoundCaughtOnce ==
    /\ (cmd = "call" /\ err1 = "NoSuchElementException")
          => (pc = "done" /\ result = err1 /\ waits = 0 /\ attempt = 1)
    /\ (UsesExecute(cmd) /\ err1 = "NoSuchElementException")
          => ((pc = "except" /\ waits = 0) \/ waits = 1)
    /\ (UsesExecute(cmd) /\ result = "NoSuchElementException")
          => (err2 = result /\ attempt = 2 /\ waits = 1)
    /\ pc = "wait" => result = "none"
    /\ result = "TimeoutError" => (clock = deadline /\ waits = 1)

C4_Witness ==
    /\ pc = "done"
    /\ cmd = "click"
    /\ target = "found_by"
    /\ err1 = "NoSuchElementException"
    /\ attempt = 2
    /\ waits = 1
    /\ result = "ok"

\* C10 (as claimed): a set() that succeeded applied clear and send_keys to one
\* handle obtained by a single locator resolution of the attempt, after the
\* visibility gate had passed.
C10_SetAtomic ==
    (pc = "done" /\ cmd = "set" /\ result = "ok")
    => (finds = 1 /\ clearedHandle = typedHandle /\ waits = 1)

\* C6: every size() returns the number of elements its locator resolves to on
\* the page as it is when size() resolves; a count of an earlier call is never
\* handed out again for a list that has changed.
C6_SizeReResolves ==
    [][(pc = "size" /\ pc' = "done")
         => (got' = Len(CollectionDelegate(target, dom))
             /\ sizes'[Len(sizes')] = got')]_vars

C6_Witness ==
    /\ pc = "done"
    /\ cmd = "size"
    /\ target = "all"
    /\ sizes = <<2, 1>>
    /\ Len(dom) = 1

\* C8: every pass starts at index 0 with the size of the collection as it is
\* then and with nothing yielded; a finished pass has yielded as many handles
\* as that size; every yielded handle is an index locator on this collection
\* for its position, holding no driver element.
C8_RestartableIteration ==
    /\ [][(pc # "iter" /\ pc' = "iter")
            => (iter_i' = 0 /\ yielded' = <<>>
                /\ current_len' = Len(CollectionDelegate(target', dom)))]_vars
    /\ [][(pc = "iter" /\ pc' = "done")
            => (Len(yielded) = current_len
                /\ passes'[Len(passes')] = current_len)]_vars
    /\ [](\A k \in 1..Len(yielded) : yielded[k] = GetItem(k - 1, target))

C8_Witness ==
    /\ pc = "done"
    /\ cmd = "iter"
    /\ passes = <<2, 1>>
    /\ Len(yielded) = 1

\* C9 (as claimed): collection[i]() ends either with the element at index i or
\* with a timeout at the deadline, never earlier; there is no third outcome.
C9_IndexTwoOutcomes ==
    /\ (pc = "done" /\ cmd = "get") => result \in {"ok", "TimeoutError"}
    /\ (cmd = "get" /\ result = "TimeoutError") => clock = deadline
    /\ (cmd = "get" /\ result = "ok") => got # NoHandle

\* C5: a navigation call, at any depth of the chain, adds a handle without a
\* find_element / find_elements call; no driver call exists before the first
\* use of a handle, and that use issues at least one.
C5_Laziness ==
    /\ [][Len(handles') > Len(handles) => driverCalls' = driverCalls]_vars
    /\ [](pc = "idle" => driverCalls = 0)
    /\ [][(pc = "idle" /\ pc' = "done") => driverCalls' >= 1]_vars

C5_Witness ==
    /\ Len(handles) = 3
    /\ handles[1].locator = "SearchContextListWebElementLocator"
    /\ handles[2].locator = "IndexedWebElementLocator"
    /\ handles[2].parent = 1
    /\ handles[3].locator = "InnerWebElementLocator"
    /\ handles[3].parent = 2
    /\ pc = "idle"
    /\ driverCalls = 0

\* C7 (as claimed): the first value a caching locator found is what every later
\* resolution of it returns, whatever the page does and however many other
\* caching locators are resolved in between, and its entry is written once.
C7_MemoizedForLife ==
    /\ writes1 <= 1
    /\ last1 = first1
    /\ got = first1

\* the positions of the page whose item satisfies every atom of p
Matching(p) == {k \in 1..Len(dom) : \A a \in p : AtomHolds(a, dom[k])}

\* the j-th matching item of the page, in page order
NthMatching(p, j) ==
    SelectSeq(dom, LAMBDA item : \A a \in p : AtomHolds(a, item))[j].id

\* C11: on every page, filtered_by(P1).filtered_by(P2) resolves to the items of
\* the page that satisfy P1 and P2, each once, in page order: what
\* filtered_by(P1 and P2) resolves to.
C11_FilterComposition ==
    [][(dom' = dom /\ cmd' = "filtered_by")
         => LET both == preds'[1] \cup preds'[2]
            IN  /\ Len(found') = Cardinality(Matching(both))
                /\ \A j \in 1..Len(found') : found'[j] = NthMatching(both, j)
                /\ found' = FilteredFind(both, find_elements(dom), dom)]_vars

C11_Witness ==
    /\ cmd = "filtered_by"
    /\ preds = <<{"visible"}, {"done"}>>
    /\ Len(dom) = 2
    /\ found = <<dom[2].id>>
    /\ dom[1].vis /\ ~dom[1].done

\* C19: element_by(P) resolves its source once and returns the first item of the
\* page, in page order, that satisfies P, the head of what filtered_by(P)
\* resolves to; it raises NoSuchElementException exactly when no item does.
C19_PredicateFind ==
    [][(dom' = dom /\ cmd' = "element_by")
         => LET p == preds'[1]
                f == FilteredFind(p, find_elements(dom), dom)
            IN  /\ (Matching(p) # {}) => (result' = "ok" /\ got' = NthMatching(p, 1)
                                           /\ got' = f[1])
                /\ (Matching(p) = {}) => result' = "NoSuchElementException"
                /\ result' \in {"ok", "NoSuchElementException"}
                /\ finds' = 1]_vars

C19_Witness ==
    /\ cmd = "element_by"
    /\ preds = <<{"done"}>>
    /\ Len(dom) = 2
    /\ ~dom[1].done /\ dom[2].done
    /\ result = "ok"
    /\ got = dom[2].id

\* C20: the size is read when the pass begins and not again: while the pass
\* runs, current_len stays what it was whatever the page does, each step yields
\* the handle of the next index and moves the index up by one, the index never
\* passes current_len (so a pass takes at most current_len steps), and the pass
\* ends only with exactly current_len handles yielded.
C20_SizeReadOnce ==
    /\ [][(pc = "iter" /\ pc' = "iter")
            => (current_len' = current_len /\ target' = target)]_vars
    /\ [][(pc = "iter" /\ iter_i' # iter_i)
            => (iter_i' = iter_i + 1
                /\ yielded' = Append(yielded, GetItem(iter_i, target)))]_vars
    /\ [](pc = "iter" => (iter_i <= current_len /\ Len(yielded) = iter_i))
    /\ [][(pc = "iter" /\ pc' # "iter")
            => (pc' = "done" /\ iter_i = current_len /\ UNCHANGED yielded)]_vars
    /\ [](pc = "iter" => (iter_i < current_len \/ ENABLED IterStop))

C20_Witness ==
    /\ pc = "iter"
    /\ target = "all"
    /\ current_len = 2
    /\ iter_i = 2
    /\ Len(dom) = 1

\* C13: should / should_not evaluate the condition on the subject as resolved at
\* each poll; the call returns (self) only from a poll that finds the condition
\* true (for should_not: false) on the page as it is then, a poll that finds it
\* so returns at once, every other poll (an exception of the resolution
\* included) only lets time pass until the deadline, and the poll at the deadline
\* ends the call with TimeoutError; nothing else leaves the call.
C13_ShouldPolls ==
    /\ [][(cmd' \in {"should", "should_not"} /\ result' = "ok" /\ result # "ok")
            => (pc = "should" /\ PollSucceeds(cmd, target, dom)
                /\ target' = target /\ finds' = finds + 1)]_vars
    /\ [][(pc = "should" /\ dom' = dom /\ PollSucceeds(cmd, target, dom))
            => (result' = "ok" /\ pc' = "done")]_vars
    /\ [][(pc = "should" /\ dom' = dom /\ ~PollSucceeds(cmd, target, dom))
            => (/\ finds' = finds + 1
                /\ IF clock < deadline
                   THEN pc' = "should" /\ clock' = clock + 1 /\ result' = "none"
                   ELSE pc' = "done" /\ result' = "TimeoutError")]_vars
    /\ [](cmd \in {"should", "should_not"}
            => (/\ result \in {"none", "ok", "TimeoutError"}
                /\ clock <= deadline
                /\ result = "TimeoutError" => clock = deadline))

\* element_by(P).should(be.visible, 1): no item matches P at the first poll, one
\* does at the second, and the call succeeds then
C13_Witness ==
    /\ cmd = "should"
    /\ target = "found_by"
    /\ timeoutArg = 1
    /\ result = "ok"
    /\ finds = 2
    /\ clock = 1

\* C14 (as claimed): the budget of the wait is config.timeout when the call
\* omits the timeout and the timeout passed in every other case, 0 included.
C14_ExplicitTimeoutOverrides ==
    [][(pc # "should" /\ pc' = "should")
         => (deadline' - clock' = IF timeoutArg' = None THEN config_timeout
                                  ELSE timeoutArg')]_vars

\* C15: an interaction ends with TimeoutError only from the readiness wait that
\* followed the failure of its first command(): the wait has run to its deadline
\* without the condition holding, it is the only wait of the call, and command()
\* has not run a second time, then or later.
C15_TimeoutNoSecondAttempt ==
    /\ [][(pc = "wait" /\ dom' = dom /\ clock = deadline
             /\ ~Matches(ConditionOf(cmd), target, dom))
            => (result' = "TimeoutError" /\ pc' = "done" /\ attempt' = 1
                /\ finds' = finds /\ typedHandle' = typedHandle
                /\ clearedHandle' = clearedHandle)]_vars
    /\ [](result = "TimeoutError"
            => (/\ pc = "done"
                /\ attempt = 1
                /\ err1 \in WebDriverException
                /\ err2 = "none"
                /\ waits = 1
                /\ clock = deadline
                /\ deadline = config_timeout))

C15_Witness ==
    /\ cmd = "click"
    /\ target = "by"
    /\ err1 = "ElementNotVisibleException"
    /\ result = "TimeoutError"
    /\ attempt = 1
    /\ Len(dom) = 1
    /\ ~dom[1].vis

\* C17: the child find is issued once, only after the wait on the parent's
\* visibility has succeeded in this resolution and on a parent handle resolved
\* after that wait; the wait succeeds only at a poll that finds the parent
\* visible; a resolution that ends with TimeoutError has waited to the deadline
\* and has issued no child find and resolved no parent handle.
C17_ChildAfterParentGate ==
    /\ [][childFinds' > childFinds
            => (pc = "child_find" /\ waits = 1 /\ handle # NoHandle
                /\ childFinds' = 1)]_vars
    /\ [][(handle' # handle /\ handle' # NoHandle)
            => (pc = "parent_resolve" /\ waits = 1
                /\ handle' = LocatorFind(target, dom).val)]_vars
    /\ [][waits' > waits
            => (pc = "parent_gate" /\ Matches("visible", target, dom))]_vars
    /\ [](cmd \in InnerCommands
            => (/\ result = "TimeoutError"
                    => (childFinds = 0 /\ handle = NoHandle /\ clock = deadline
                        /\ waits = 0)
                /\ result = "ok"
                    => (childFinds = 1 /\ handle # NoHandle
                        /\ (cmd = "inner_element" => got = handle)
                        /\ (cmd = "inner_all" => found = <<handle>>))))

C17_Witness ==
    /\ cmd = "inner_element"
    /\ target = "by"
    /\ result = "ok"
    /\ clock = 1
    /\ waits = 1
    /\ childFinds = 1
    /\ got = handle

\* C18 (as claimed): a slice resolution that succeeds returns the elements at the
\* positions a, a + step, ... below b, all of them, of a source that has at
\* least b elements when it is read; one that fails with TimeoutError has waited
\* to the deadline.
C18_SliceOfFullSource ==
    /\ [][(pc = "slice_fetch" /\ pc' = "done" /\ result' = "ok")
            => LET source == CollectionDelegate(target, dom)
               IN  /\ Len(source) >= slc[2]
                   /\ Len(found') = SliceLen(slc[1], slc[2], slc[3])
                   /\ \A k \in 1..Len(found') :
                         found'[k] = source[slc[1] + (k - 1) * slc[3] + 1]]_vars
    /\ []((cmd = "slice" /\ result = "TimeoutError") => clock = deadline)

\* a should_each call is under way
InEach == cmd = "should_each" /\ pc \notin {"idle", "done"}

\* C12 (as claimed, first part): should_each resolves the collection once.
C12_ResolvesOnce == cmd = "should_each" => driverCalls <= 1

\* C12: should_each reads the size of the collection once; it waits on the
\* members in index order, a member being passed only by a poll that resolves
\* the collection again and finds the element then at that index visible; the
\* wait of each member ends timeout after that member's wait began; the first
\* member whose wait fails ends the call with TimeoutError, no later member
\* having been polled, and the call succeeds only past the last member.
C12_ShouldEachPerMember ==
    /\ [][InEach => (current_len' = current_len /\ timeoutArg' = timeoutArg)]_vars
    /\ [][(InEach /\ iter_i' # iter_i)
            => (/\ iter_i' = iter_i + 1
                /\ pc = "locator_fetch"
                /\ driverCalls >= 2
                /\ GatedFetch(target, dom).err = "none"
                /\ ItemAt(dom, GatedFetch(target, dom).val).vis)]_vars
    /\ [][(cmd' = "should_each" /\ pc # "wait" /\ pc' = "wait" /\ clock' = clock
             /\ (InEach => iter_i' # iter_i))
            => deadline' = clock + Budget(timeoutArg')]_vars
    /\ [][(pc \in {"idle", "done"} /\ cmd' = "should_each" /\ pc' = "wait")
            => (deadline' = Budget(timeoutArg') /\ clock' = 0 /\ iter_i' = 0
                /\ current_len' = Len(CollectionDelegate(target', dom)))]_vars
    /\ [][(InEach /\ result' = "TimeoutError")
            => (iter_i' = iter_i /\ iter_i < current_len /\ clock >= deadline
                /\ pc' = "done")]_vars
    /\ [](cmd = "should_each"
            => (/\ iter_i <= current_len
                /\ result = "ok" => iter_i = current_len
                /\ result = "TimeoutError" => iter_i < current_len))

C12_Witness ==
    /\ cmd = "should_each"
    /\ timeoutArg = 1
    /\ current_len = 2
    /\ iter_i = 1
    /\ result = "TimeoutError"
    /\ deadline = 2
    /\ clock = 2

C21_OnePointerAction ==
    [][(pc = "perform" /\ pc' # "perform") => performed' = <<handle>>]_vars

====
